---- MODULE Spec2Model ----
(***************************************************************************)
(* The command handlers of the bird CLI:                                   *)
(*   - the batch `follow <user-id-or-handle...> [--json]` handler          *)
(*     (registerFollowCommand),                                            *)
(*   - the single-target `follow` and `unfollow` handlers                  *)
(*     (registerFollowCommands) with their helper resolveUserId.           *)
(* One behaviour is one invocation of one handler.  A JS string is a       *)
(* sequence of one-character strings; `undefined` and `null` are the two   *)
(* sequences below, which are no sequence of characters.                   *)
(***************************************************************************)
EXTENDS Integers, Sequences, FiniteSets, TLC

VARIABLES
    cmd,              \* which handler runs: "batch", "follow" or "unfollow"
    userIdOrHandles,  \* the positional arguments (one for follow/unfollow)
    cmdOpts,          \* [json |-> BOOLEAN], the --json flag
    cookies,          \* what resolveCredentialsFromOptions returned
    pc,               \* position of the handler
    idx,              \* 1-based index of the current target of the loop
    isUserId,         \* local of the loop body
    userId,           \* local
    handle,           \* local
    displayName,      \* local
    results,          \* the results array
    failures,         \* the failures counter
    stdout,           \* lines written by console.log
    stderr,           \* lines written by console.error
    exitCode,         \* the process's exit code once it has ended
    calls             \* collaborator calls and returns, in order

vars == <<cmd, userIdOrHandles, cmdOpts, cookies, pc, idx, isUserId, userId,
          handle, displayName, results, failures, stdout, stderr, exitCode, calls>>

----------------------------------------------------------------------------
(* Bounds and input domains *)

MaxTargets == 2

DelayMs == 500

Undefined == <<"undefined">>
Null == <<"null">>

Digit == {"0", "1", "2", "3", "4", "5", "6", "7", "8", "9"}
Letter == {"a", "b", "c", "d", "e", "f", "g", "h", "i", "j", "k", "l", "m",
           "n", "o", "p", "q", "r", "s", "t", "u", "v", "w", "x", "y", "z"}

\* The command-line arguments tried: a numeric ID, a bare handle, an
\* @-prefixed handle made of a digit, a malformed handle, the empty string.
Inputs == { <<"1", "2">>, <<"a">>, <<"@", "7">>, <<"!">>, <<>> }

RECURSIVE ListsOf(_)
ListsOf(n) == IF n = 0 THEN { <<>> }
              ELSE { Append(l, x) : l \in ListsOf(n - 1), x \in Inputs }

TargetLists == UNION { ListsOf(n) : n \in 1..MaxTargets }

\* What the credential resolver may return.
CookieValues == { Undefined, <<>>, <<"t">> }
CookieSets == [authToken : CookieValues, ct0 : CookieValues]
WarningSets == { <<>>, << <<"w">> >> }

\* What the platform client may return.
LookupResults == [success : BOOLEAN,
                  userId : { Undefined, <<>>, <<"9">> },
                  username : { Undefined, <<"c">> },
                  error : { Undefined, <<"Not found">> }]
MutationResults == [success : BOOLEAN,
                    username : { Undefined, <<"d">> },
                    error : { Undefined, <<"Rate limited">> }]

----------------------------------------------------------------------------
(* Pure helpers *)

\* JS truthiness of a string-or-undefined value, negated: `!v`.
Falsy(v) == v = Undefined \/ v = Null \/ v = <<>>

\* `a ?? b`
Coalesce(a, b) == IF a = Undefined \/ a = Null THEN b ELSE a

\* /^\d+$/.test(input)
IsUserId_Short(input) == Len(input) = 1 /\ input[1] \in Digit
IsUserId(input) == Len(input) > 0 /\ \A i \in 1..Len(input) : input[i] \in Digit

\* normalizeHandle(input): strips one leading "@"; a handle is a non-empty
\* run of letters, digits and "_"; null otherwise.
normalizeHandle(input) ==
    LET withoutAt == IF Len(input) > 0 /\ input[1] = "@" THEN Tail(input) ELSE input
    IN  IF Len(withoutAt) > 0
           /\ \A i \in 1..Len(withoutAt) : withoutAt[i] \in Digit \cup Letter \cup {"_"}
        THEN withoutAt
        ELSE Null

\* `@${handle}`
At(name) == <<"@">> \o name

\* !cookies.authToken || !cookies.ct0
MissingCredentials_AuthOnly(c) == Falsy(c.authToken)
MissingCredentials(c) == Falsy(c.authToken) \/ Falsy(c.ct0)

\* !lookup.success || !lookup.userId
LookupFailed_SuccessOnly(lookup) == ~lookup.success
LookupFailed(lookup) == ~lookup.success \/ Falsy(lookup.userId)

\* !cmdOpts.json
PlainMode_Always(opts) == TRUE
PlainMode(opts) == ~opts.json

\* cmdOpts.json, the guard of the aggregate report
JsonMode(opts) == opts.json

\* userIdOrHandles.length > 1
DelayWanted(list) == Len(list) > 1

\* failures > 0, the guard of the final process.exit(1)
AnyFailure_Never(n) == FALSE
AnyFailure(n) == n > 0

\* failures += 1
CountFailure_Forgets(n) == n
CountFailure(n) == n + 1

\* The loop `for (const input of userIdOrHandles)` moving to the next element
\* at the end of its body.
NextTarget(i) == i + 1

\* `continue`: the loop moves to the next element from inside its body.
Continue_Breaks(i) == Len(userIdOrHandles) + 1
Continue(i) == i + 1

\* !handle
HandleRejected_Never(h) == FALSE
HandleRejected(h) == Falsy(h)

\* Lines of output: the prefix ctx.p(...) and the message with its holes.
Line(p, msg, args) == [p |-> p, msg |-> msg, args |-> args]
JsonLine(r, f) == [p |-> "json", body |-> [results |-> r, failures |-> f]]
WarningLines(warnings) == [i \in 1..Len(warnings) |-> Line("warn", "", <<warnings[i]>>)]

\* One entry of the collaborator log.
Call(fn, arg) == [ev |-> "call", fn |-> fn, arg |-> arg, idx |-> idx, done |-> Len(results)]
Return(fn, val) == [ev |-> "return", fn |-> fn, arg |-> val, idx |-> idx, done |-> Len(results)]
Throw(fn) == [ev |-> "throw", fn |-> fn, arg |-> Undefined, idx |-> idx, done |-> Len(results)]

Locals == <<isUserId, userId, handle, displayName>>
Args == <<cmd, userIdOrHandles, cmdOpts>>

----------------------------------------------------------------------------
Init ==
    /\ cmd \in {"batch", "follow", "unfollow"}
    /\ userIdOrHandles \in IF cmd = "batch" THEN TargetLists ELSE ListsOf(1)
    /\ cmdOpts \in IF cmd = "batch" THEN [json : BOOLEAN] ELSE {[json |-> FALSE]}
    /\ cookies = [authToken |-> Undefined, ct0 |-> Undefined]
    /\ pc = "start"
    /\ idx = 1
    /\ isUserId = FALSE
    /\ userId = Undefined
    /\ handle = Undefined
    /\ displayName = Undefined
    /\ results = <<>>
    /\ failures = 0
    /\ stdout = <<>>
    /\ stderr = <<>>
    /\ exitCode = -1
    /\ calls = <<>>

----------------------------------------------------------------------------
(* Shared steps *)

\* process.exit(1)
Exit1 == pc' = "exited" /\ exitCode' = 1

\* The handler's promise resolves and the process ends on its own.
ReturnNormally == pc' = "returned" /\ exitCode' = 0

\* An awaited collaborator rejects: no handler has a try/catch, so the
\* rejection leaves the handler, which sets no exit code.
Propagate(fn) ==
    /\ pc' = "threw"
    /\ UNCHANGED <<Args, cookies, idx, Locals, results, failures, stdout, stderr, exitCode>>

\* await ctx.resolveCredentialsFromOptions(opts), the warnings and the
\* credentials check; `next` is where the handler goes on.
Credentials(next) ==
    /\ pc = "start"
    /\ \/ \E c \in CookieSets, warnings \in WarningSets :
            /\ cookies' = c
            /\ calls' = calls \o << Call("resolveCredentialsFromOptions", Undefined),
                                    Return("resolveCredentialsFromOptions", c) >>
            /\ IF MissingCredentials(c)
               THEN /\ stderr' = stderr \o WarningLines(warnings)
                                   \o << Line("err", "Missing required credentials", <<>>) >>
                    /\ Exit1
               ELSE /\ stderr' = stderr \o WarningLines(warnings)
                    /\ pc' = next
                    /\ UNCHANGED exitCode
            /\ UNCHANGED <<Args, idx, Locals, results, failures, stdout>>
       \/ /\ calls' = calls \o << Call("resolveCredentialsFromOptions", Undefined),
                                  Throw("resolveCredentialsFromOptions") >>
          /\ Propagate("resolveCredentialsFromOptions")

----------------------------------------------------------------------------
(* The batch handler, registerFollowCommand *)

BatchCredentials == cmd = "batch" /\ Credentials("loop")

\* The `continue` paths and the end of the loop body drop the locals.
DropLocals ==
    /\ isUserId' = FALSE
    /\ userId' = Undefined
    /\ handle' = Undefined
    /\ displayName' = Undefined

\* One failed target: the counter, the record and, in plain mode, the line.
RecordFailure(record, line) ==
    /\ failures' = CountFailure(failures)
    /\ results' = Append(results, record)
    /\ stderr' = IF PlainMode(cmdOpts) THEN Append(stderr, line) ELSE stderr
    /\ UNCHANGED stdout

\* The head of the loop body up to its first await.
BatchLoop ==
    /\ cmd = "batch" /\ pc = "loop" /\ idx <= Len(userIdOrHandles)
    /\ LET input == userIdOrHandles[idx] IN
       IF IsUserId(input)
       THEN /\ isUserId' = TRUE
            /\ userId' = input
            /\ displayName' = input
            /\ calls' = Append(calls, Call("followUser", input))
            /\ pc' = "followUser"
            /\ UNCHANGED <<handle, idx, results, failures, stdout, stderr>>
       ELSE LET h == normalizeHandle(input)
                log == calls \o << Call("normalizeHandle", input),
                                   Return("normalizeHandle", h) >>
            IN  IF HandleRejected(h)
                THEN /\ RecordFailure([input |-> input, userId |-> Undefined,
                                       success |-> FALSE,
                                       error |-> <<"Invalid handle format">>],
                                      Line("err", "Invalid handle", <<input>>))
                     /\ calls' = log
                     /\ idx' = Continue(idx)
                     /\ pc' = "loop"
                     /\ DropLocals
                ELSE /\ isUserId' = FALSE
                     /\ handle' = h
                     /\ displayName' = At(h)
                     /\ calls' = Append(log, Call("getUserIdByUsername", h))
                     /\ pc' = "lookup"
                     /\ UNCHANGED <<userId, idx, results, failures, stdout, stderr>>
    /\ UNCHANGED <<Args, cookies, exitCode>>

\* client.getUserIdByUsername(handle) settles.
BatchLookupReturns ==
    /\ cmd = "batch" /\ pc = "lookup"
    /\ \/ \E lookupResult \in LookupResults :
            /\ LET log == Append(calls, Return("getUserIdByUsername",
                                               [success |-> lookupResult.success,
                                                userId |-> lookupResult.userId]))
               IN  IF LookupFailed(lookupResult)
                   THEN LET error == Coalesce(lookupResult.error, <<"User not found">>) IN
                        /\ RecordFailure([input |-> displayName, userId |-> Undefined,
                                          success |-> FALSE, error |-> error],
                                         Line("err", "Failed to find user", <<displayName, error>>))
                        /\ calls' = log
                        /\ idx' = Continue(idx)
                        /\ pc' = "loop"
                        /\ DropLocals
                   ELSE /\ userId' = lookupResult.userId
                        /\ calls' = Append(log, Call("followUser", lookupResult.userId))
                        /\ pc' = "followUser"
                        /\ UNCHANGED <<isUserId, handle, displayName, idx, results,
                                       failures, stdout, stderr>>
            /\ UNCHANGED <<Args, cookies, exitCode>>
       \/ /\ calls' = Append(calls, Throw("getUserIdByUsername"))
          /\ Propagate("getUserIdByUsername")

\* client.followUser(userId) settles; then the delay is started or the loop
\* goes to its next element.
BatchFollowReturns ==
    /\ cmd = "batch" /\ pc = "followUser"
    /\ \/ \E result \in MutationResults :
            LET log == Append(calls, Return("followUser", [success |-> result.success])) IN
            /\ IF result.success
               THEN /\ results' = Append(results, [input |-> displayName, userId |-> userId,
                                                   success |-> TRUE, error |-> Undefined])
                    /\ stdout' = IF PlainMode(cmdOpts)
                                 THEN Append(stdout,
                                        Line("ok", "Followed",
                                             IF isUserId THEN <<displayName>>
                                                         ELSE <<displayName, userId>>))
                                 ELSE stdout
                    /\ UNCHANGED <<failures, stderr>>
               ELSE RecordFailure([input |-> displayName, userId |-> userId,
                                   success |-> FALSE, error |-> result.error],
                                  Line("err", "Failed to follow", <<displayName, result.error>>))
            /\ IF DelayWanted(userIdOrHandles)
               THEN /\ calls' = Append(log, Call("setTimeout", DelayMs))
                    /\ pc' = "delay"
                    /\ UNCHANGED <<idx, Locals>>
               ELSE /\ calls' = log
                    /\ idx' = NextTarget(idx)
                    /\ pc' = "loop"
                    /\ DropLocals
            /\ UNCHANGED <<Args, cookies, exitCode>>
       \/ /\ calls' = Append(calls, Throw("followUser"))
          /\ Propagate("followUser")

\* The 500 ms timer fires and the loop goes to its next element.
BatchDelay ==
    /\ cmd = "batch" /\ pc = "delay"
    /\ calls' = Append(calls, Return("setTimeout", DelayMs))
    /\ idx' = NextTarget(idx)
    /\ pc' = "loop"
    /\ DropLocals
    /\ UNCHANGED <<Args, cookies, results, failures, stdout, stderr, exitCode>>

\* After the loop: the report and the exit status.
BatchFinish ==
    /\ cmd = "batch" /\ pc = "loop" /\ idx > Len(userIdOrHandles)
    /\ stdout' = IF JsonMode(cmdOpts) THEN Append(stdout, JsonLine(results, failures))
                                      ELSE stdout
    /\ IF AnyFailure(failures) THEN Exit1 ELSE ReturnNormally
    /\ UNCHANGED <<Args, cookies, idx, Locals, results, failures, stderr, calls>>

----------------------------------------------------------------------------
(* resolveUserId and the single-target handlers, registerFollowCommands *)

\* resolveUserId up to its first await; for a numeric ID it returns at once
\* and the handler goes on to its mutation call `fn`.
ResolveUserId(fn) ==
    /\ pc = "resolve"
    /\ LET usernameOrId == userIdOrHandles[idx] IN
       IF IsUserId(usernameOrId)
       THEN /\ isUserId' = TRUE
            /\ userId' = usernameOrId
            /\ displayName' = usernameOrId
            /\ calls' = Append(calls, Call(fn, usernameOrId))
            /\ pc' = "mutate"
            /\ UNCHANGED <<handle, stderr, exitCode>>
       ELSE LET h == normalizeHandle(usernameOrId)
                log == calls \o << Call("normalizeHandle", usernameOrId),
                                   Return("normalizeHandle", h) >>
            IN  IF HandleRejected(h)
                THEN /\ stderr' = Append(stderr, Line("err", "Invalid username", <<usernameOrId>>))
                     /\ calls' = log
                     /\ Exit1
                     /\ UNCHANGED Locals
                ELSE /\ handle' = h
                     /\ calls' = Append(log, Call("getUserIdByUsername", h))
                     /\ pc' = "lookup"
                     /\ UNCHANGED <<isUserId, userId, displayName, stderr, exitCode>>
    /\ UNCHANGED <<Args, cookies, idx, results, failures, stdout>>

\* client.getUserIdByUsername(handle) settles inside resolveUserId; on
\* success the handler goes on to its mutation call `fn`.
ResolveLookupReturns(fn) ==
    /\ pc = "lookup"
    /\ \/ \E lookup \in LookupResults :
            /\ LET log == Append(calls, Return("getUserIdByUsername",
                                               [success |-> lookup.success,
                                                userId |-> lookup.userId]))
               IN  IF LookupFailed(lookup)
                   THEN /\ stderr' = Append(stderr,
                                       Line("err", "Failed to find user",
                                            <<At(handle), Coalesce(lookup.error, <<"Unknown error">>)>>))
                        /\ calls' = log
                        /\ Exit1
                        /\ UNCHANGED Locals
                   ELSE /\ userId' = lookup.userId
                        /\ displayName' = IF Falsy(lookup.username) THEN lookup.userId
                                                                    ELSE At(lookup.username)
                        /\ calls' = Append(log, Call(fn, lookup.userId))
                        /\ pc' = "mutate"
                        /\ UNCHANGED <<isUserId, handle, stderr, exitCode>>
            /\ UNCHANGED <<Args, cookies, idx, results, failures, stdout>>
       \/ /\ calls' = Append(calls, Throw("getUserIdByUsername"))
          /\ Propagate("getUserIdByUsername")

\* client.follow(userId) / client.unfollow(userId) settles.
MutationReturns(fn, done, failed) ==
    /\ pc = "mutate"
    /\ \/ \E result \in MutationResults :
            /\ calls' = Append(calls, Return(fn, [success |-> result.success]))
            /\ IF result.success
               THEN LET finalName == IF Falsy(result.username) THEN displayName
                                                               ELSE At(result.username)
                    IN  /\ stdout' = Append(stdout, Line("ok", done, <<finalName>>))
                        /\ ReturnNormally
                        /\ UNCHANGED stderr
               ELSE /\ stderr' = Append(stderr, Line("err", failed, <<displayName, result.error>>))
                    /\ Exit1
                    /\ UNCHANGED stdout
            /\ UNCHANGED <<Args, cookies, idx, Locals, results, failures>>
       \/ /\ calls' = Append(calls, Throw(fn))
          /\ Propagate(fn)

FollowCredentials == cmd = "follow" /\ Credentials("resolve")
FollowResolve == cmd = "follow" /\ ResolveUserId("follow")
FollowLookupReturns == cmd = "follow" /\ ResolveLookupReturns("follow")
FollowReturns == cmd = "follow" /\ MutationReturns("follow", "Now following", "Failed to follow")

UnfollowCredentials == cmd = "unfollow" /\ Credentials("resolve")
UnfollowResolve == cmd = "unfollow" /\ ResolveUserId("unfollow")
UnfollowLookupReturns == cmd = "unfollow" /\ ResolveLookupReturns("unfollow")
UnfollowReturns == cmd = "unfollow" /\ MutationReturns("unfollow", "Unfollowed", "Failed to unfollow")

----------------------------------------------------------------------------
Next ==
    \/ BatchCredentials
    \/ BatchLoop
    \/ BatchLookupReturns
    \/ BatchFollowReturns
    \/ BatchDelay
    \/ BatchFinish
    \/ FollowCredentials
    \/ FollowResolve
    \/ FollowLookupReturns
    \/ FollowReturns
    \/ UnfollowCredentials
    \/ UnfollowResolve
    \/ UnfollowLookupReturns
    \/ UnfollowReturns

Spec == Init /\ [][Next]_vars

----------------------------------------------------------------------------
(* Vocabulary of the properties *)

N == Len(userIdOrHandles)

MutationFns == {"followUser", "follow", "unfollow"}
NetworkFns == MutationFns \cup {"getUserIdByUsername"}

\* The string consists only of digits, and of at least one.
OnlyDigits(s) == s # <<>> /\ s \in Seq(Digit)

\* A cookie value that is absent or empty.
NoCredential(v) == v \in {Undefined, Null, <<>>}

CredentialsResolved ==
    \E k \in DOMAIN calls :
        calls[k].ev = "return" /\ calls[k].fn = "resolveCredentialsFromOptions"

LacksCredentials ==
    CredentialsResolved /\ (NoCredential(cookies.authToken) \/ NoCredential(cookies.ct0))

HasCredentials ==
    CredentialsResolved /\ ~NoCredential(cookies.authToken) /\ ~NoCredential(cookies.ct0)

\* The process has ended by the handler's own doing.
Finished == pc \in {"returned", "exited"}

\* The batch handler got past its loop.
BatchFinished == cmd = "batch" /\ HasCredentials /\ Finished

\* Positions of the log where target i had one of the functions fns called.
CallsOf(i, fns) ==
    { k \in DOMAIN calls : calls[k].ev = "call" /\ calls[k].idx = i /\ calls[k].fn \in fns }

\* Positions of the log where a lookup returned.
LookupReturns ==
    { k \in DOMAIN calls : calls[k].ev = "return" /\ calls[k].fn = "getUserIdByUsername" }

FailedRecords == { i \in DOMAIN results : ~results[i].success }

\* Lines about one target, as opposed to warnings, the credentials error and
\* the report.
PerTargetLines(out) ==
    { k \in DOMAIN out : out[k].p \in {"ok", "err"}
                         /\ out[k].msg # "Missing required credentials" }
JsonLines(out) == { k \in DOMAIN out : out[k].p = "json" }

----------------------------------------------------------------------------
(* C1 *)

\* C1: in the batch command with credentials present, once the loop over the
\* N targets has finished the results list holds exactly N records and
\* `failures` is the number of records whose success is false.
C1_BatchCounts ==
    (cmd = "batch" /\ HasCredentials /\ ((pc = "loop" /\ idx > N) \/ Finished))
        => /\ Len(results) = N
           /\ failures = Cardinality(FailedRecords)

\* A finished batch of two targets, the first followed and the second failed.
C1_Witness ==
    /\ BatchFinished /\ N = 2
    /\ Len(results) = 2 /\ results[1].success /\ ~results[2].success
    /\ failures = 1

----------------------------------------------------------------------------
(* C2 *)

\* Some follow/unfollow call returned success.
MutationSucceeded ==
    \E k \in DOMAIN calls :
        calls[k].ev = "return" /\ calls[k].fn \in MutationFns /\ calls[k].arg.success

\* C2: when the handler ends the process, the exit code is 0 or 1; it is 1
\* on missing credentials; in the batch command it is 0 exactly when
\* failures = 0 after all targets; in the single-target commands it is 0
\* exactly when the one mutation call returned success.
C2_ExitCode ==
    /\ (exitCode # -1) <=> Finished
    /\ Finished =>
        /\ exitCode \in {0, 1}
        /\ LacksCredentials => exitCode = 1
        /\ BatchFinished => (idx > N /\ (exitCode = 0 <=> failures = 0))
        /\ (cmd # "batch") => (exitCode = 0 <=> MutationSucceeded)

\* A finished batch in which a target failed, and exit code 1.
C2_Witness == BatchFinished /\ failures > 0 /\ exitCode = 1 /\ Len(results) = 2

----------------------------------------------------------------------------
(* C3 *)

\* C3: in every command, when the resolved cookies lack authToken or ct0 the
\* handler prints the missing-credentials error and exits with code 1 before
\* any target is processed: no normalisation, lookup, follow/unfollow call or
\* delay, no result record, nothing on stdout.
C3_MissingCredentialsAbort ==
    LacksCredentials =>
        /\ pc = "exited" /\ exitCode = 1
        /\ stderr # <<>>
        /\ stderr[Len(stderr)] = Line("err", "Missing required credentials", <<>>)
        /\ \A k \in DOMAIN calls : calls[k].fn = "resolveCredentialsFromOptions"
        /\ results = <<>> /\ failures = 0
        /\ stdout = <<>>
        /\ idx = 1

\* The batch command in JSON mode with authToken present and ct0 missing.
C3_Witness ==
    /\ cmd = "batch" /\ cmdOpts.json /\ LacksCredentials
    /\ ~NoCredential(cookies.authToken)
    /\ pc = "exited"

----------------------------------------------------------------------------
(* C4 *)

\* C4: for every target that consists only of digits neither normalizeHandle
\* nor getUserIdByUsername is called, and the follow/unfollow call, made as
\* soon as the target is taken up, receives exactly the input string.
C4_NumericIdUsedDirectly ==
    \A i \in 1..N :
        OnlyDigits(userIdOrHandles[i]) =>
            /\ CallsOf(i, {"normalizeHandle", "getUserIdByUsername"}) = {}
            /\ \A k \in CallsOf(i, MutationFns) : calls[k].arg = userIdOrHandles[i]
            /\ (i < idx \/ (i = idx /\ pc \in {"followUser", "mutate", "delay"}))
                  => Cardinality(CallsOf(i, MutationFns)) = 1

\* The numeric target "12" has been handed to the mutation call.
C4_Witness ==
    /\ OnlyDigits(userIdOrHandles[1])
    /\ \E k \in CallsOf(1, MutationFns) : calls[k].arg = <<"1", "2">>
    /\ Finished

----------------------------------------------------------------------------
(* C5 *)

\* Target i has been handed to normalizeHandle.
Normalized(i) == CallsOf(i, {"normalizeHandle"}) # {}

\* C5: for every non-numeric target normalizeHandle is called before any
\* network call; when it rejects the input, no lookup and no follow/unfollow
\* call is made for the target, the single-target commands print the
\* invalid-username error and exit 1, and the batch command records a failed
\* result with error 'Invalid handle format' and goes on with the next target.
C5_InvalidHandleNoNetwork ==
    \A i \in 1..N :
        ~OnlyDigits(userIdOrHandles[i]) =>
            /\ \A k \in CallsOf(i, NetworkFns) :
                   \E j \in CallsOf(i, {"normalizeHandle"}) : j < k
            /\ normalizeHandle(userIdOrHandles[i]) = Null =>
                /\ CallsOf(i, NetworkFns) = {}
                /\ (Normalized(i) /\ cmd # "batch") =>
                      /\ pc = "exited" /\ exitCode = 1
                      /\ stderr[Len(stderr)]
                            = Line("err", "Invalid username", <<userIdOrHandles[i]>>)
                /\ (Normalized(i) /\ cmd = "batch") =>
                      /\ Len(results) >= i
                      /\ results[i] = [input |-> userIdOrHandles[i], userId |-> Undefined,
                                       success |-> FALSE,
                                       error |-> <<"Invalid handle format">>]
                      /\ idx > i
                      /\ Finished => Len(results) = N

\* A batch whose first target was rejected by normalizeHandle and whose
\* second target was then followed.
C5_Witness ==
    /\ BatchFinished /\ N = 2
    /\ normalizeHandle(userIdOrHandles[1]) = Null /\ ~OnlyDigits(userIdOrHandles[1])
    /\ Len(results) = 2 /\ results[2].success

----------------------------------------------------------------------------
(* C6 *)

\* The `input` field the batch command stores for a target.
RecordedName(s) ==
    IF OnlyDigits(s) \/ normalizeHandle(s) = Null THEN s ELSE At(normalizeHandle(s))

\* C6: in the batch command a failed target never stops the batch (the
\* handler ends only after every target got its record), targets are handled
\* one after another in input order (every normalisation, lookup and follow
\* call of target i is made when exactly the i-1 earlier targets have their
\* records, and the log never goes back to an earlier target), and the i-th
\* record belongs to the i-th input.
C6_BatchSequential ==
    cmd = "batch" =>
        /\ BatchFinished => (idx = N + 1 /\ Len(results) = N)
        /\ (HasCredentials /\ ~Finished /\ pc # "threw") => idx <= N + 1
        /\ \A k \in DOMAIN calls :
              (calls[k].ev = "call" /\ calls[k].fn \in NetworkFns \cup {"normalizeHandle"})
                  => (calls[k].done = calls[k].idx - 1 /\ calls[k].idx \in 1..N)
        /\ \A k \in 1..(Len(calls) - 1) : calls[k].idx <= calls[k + 1].idx
        /\ \A i \in DOMAIN results : results[i].input = RecordedName(userIdOrHandles[i])
        /\ Len(results) \in {idx - 1, idx}

\* A batch whose first target failed at the lookup and whose second target,
\* a different one, was then followed.
C6_Witness ==
    /\ BatchFinished /\ N = 2
    /\ userIdOrHandles[1] # userIdOrHandles[2]
    /\ Len(results) = 2
    /\ ~results[1].success /\ results[1].error = <<"User not found">>
    /\ results[2].success

----------------------------------------------------------------------------
(* C7 *)

\* C7: in the batch command with --json no per-target line is ever printed,
\* stdout holds the one report {results, failures} once the batch has
\* finished and nothing before; without --json the report is never printed
\* and each record comes with one per-target line.
C7_OutputMode ==
    cmd = "batch" =>
        /\ JsonLines(stderr) = {}
        /\ cmdOpts.json =>
              /\ PerTargetLines(stdout) = {} /\ PerTargetLines(stderr) = {}
              /\ BatchFinished => stdout = << JsonLine(results, failures) >>
              /\ ~BatchFinished => stdout = <<>>
        /\ ~cmdOpts.json =>
              /\ JsonLines(stdout) = {}
              /\ Cardinality(PerTargetLines(stdout)) + Cardinality(PerTargetLines(stderr))
                    = Len(results)
              /\ Cardinality(PerTargetLines(stdout)) = Len(results) - failures

\* A finished JSON-mode batch of two targets, one of them failed.
C7_Witness ==
    /\ BatchFinished /\ cmdOpts.json /\ N = 2 /\ failures = 1
    /\ stdout = << JsonLine(results, failures) >>

----------------------------------------------------------------------------
(* C8 *)

\* Positions of the log where the delay was started after target i.
DelaysAfter(i) == CallsOf(i, {"setTimeout"})

\* C8: in the batch command there is exactly one delay after every target
\* but the last, whatever the target's outcome, none after the last target,
\* and none at all with a single target.
C8_DelayBetweenTargets ==
    cmd = "batch" =>
        \A i \in 1..N :
            /\ i < idx => Cardinality(DelaysAfter(i)) = (IF i < N THEN 1 ELSE 0)
            /\ i = N => DelaysAfter(i) = {}

\* What the code does: with more than one target the delay follows every
\* target whose followUser call returned, the last one included, and no
\* other target.
C8_DelayAfterEachFollow ==
    cmd = "batch" =>
        \A i \in 1..N :
            /\ Cardinality(DelaysAfter(i)) <= 1
            /\ i < idx => (DelaysAfter(i) # {} <=> (N > 1 /\ results[i].userId # Undefined))

----------------------------------------------------------------------------
(* C9 *)

\* C9: no exception propagates past a command handler.
C9_NoExceptionPropagates == pc # "threw"

----------------------------------------------------------------------------
(* C10 *)

\* C10: for each target there is at most one lookup and at most one
\* follow/unfollow call; the follow/unfollow call gets a non-empty user ID,
\* which is the numeric input itself or the userId of a lookup of this target
\* that returned success; a lookup that reports success without a userId is
\* a failure of the target: no follow/unfollow call, a failed record in the
\* batch command, exit code 1 in the single-target commands.
C10_SingleAttemptResolvedOnly ==
    /\ \A i \in 1..N :
          /\ Cardinality(CallsOf(i, {"getUserIdByUsername"})) <= 1
          /\ Cardinality(CallsOf(i, MutationFns)) <= 1
          /\ \A k \in CallsOf(i, MutationFns) :
                /\ ~NoCredential(calls[k].arg)
                /\ IF OnlyDigits(userIdOrHandles[i])
                   THEN calls[k].arg = userIdOrHandles[i]
                   ELSE \E j \in LookupReturns :
                           /\ j < k /\ calls[j].idx = i
                           /\ calls[j].arg.success
                           /\ calls[j].arg.userId = calls[k].arg
    /\ \A j \in LookupReturns :
          (~calls[j].arg.success \/ NoCredential(calls[j].arg.userId)) =>
              /\ CallsOf(calls[j].idx, MutationFns) = {}
              /\ cmd = "batch" => /\ Len(results) >= calls[j].idx
                                  /\ ~results[calls[j].idx].success
                                  /\ results[calls[j].idx].userId = Undefined
              /\ cmd # "batch" => (pc = "exited" /\ exitCode = 1)

\* The single-target follow whose lookup returned success with an empty
\* userId.
C10_Witness ==
    /\ cmd = "follow"
    /\ \E j \in LookupReturns : calls[j].arg.success /\ calls[j].arg.userId = <<>>
    /\ pc = "exited"

====
